---- MODULE Spec2Model ----
(***************************************************************************)
(* Model of tools/knu_distribution.py: the KNU token distribution engine.  *)
(*                                                                         *)
(* KNUDistributor.distribute is modelled as a sequential process (pc),     *)
(* one action per step of its body; calculate_weights and                  *)
(* validate_eligibility are operators, also exercised on their own by the  *)
(* specifications SpecWeights and SpecElig.                                *)
(*                                                                         *)
(* Python floats are modelled as exact rationals [n, d] (d > 0, lowest     *)
(* terms): comparisons with zero, sums and int() truncation are computed   *)
(* as the code computes them, without binary rounding error.               *)
(***************************************************************************)
EXTENDS Integers, Sequences, FiniteSets, TLC

(***************************************************************************)
(* Bounds of the model.                                                    *)
(***************************************************************************)
MaxKnus == 2

(***************************************************************************)
(* Rational arithmetic (the float type of the source).                     *)
(***************************************************************************)
Abs(x) == IF x < 0 THEN -x ELSE x

RECURSIVE GCD(_, _)
GCD(a, b) == IF b = 0 THEN a ELSE GCD(b, a % b)

Rat(n, d) ==
    LET s == IF d < 0 THEN -1 ELSE 1
        g == GCD(Abs(n), Abs(d))
    IN  [n |-> (s * n) \div g, d |-> Abs(d) \div g]

Zero == [n |-> 0, d |-> 1]
One == [n |-> 1, d |-> 1]

RatAdd(a, b) == Rat(a.n * b.d + b.n * a.d, a.d * b.d)
RatSub(a, b) == Rat(a.n * b.d - b.n * a.d, a.d * b.d)
RatMul(a, b) == Rat(a.n * b.n, a.d * b.d)
RatDiv(a, b) == Rat(a.n * b.d, a.d * b.n)
RatLt(a, b) == a.n * b.d < b.n * a.d
RatLe(a, b) == a.n * b.d <= b.n * a.d

RECURSIVE RatSum(_)
RatSum(s) == IF s = <<>> THEN Zero ELSE RatAdd(Head(s), RatSum(Tail(s)))

RECURSIVE IntSum(_)
IntSum(s) == IF s = <<>> THEN 0 ELSE Head(s) + IntSum(Tail(s))

\* Python int(x) of a float: truncation toward zero.
PyInt(r) == IF r.n >= 0 THEN r.n \div r.d ELSE -((-r.n) \div r.d)

(***************************************************************************)
(* Program constants.                                                      *)
(***************************************************************************)
DEG_PER_TT == 360

Header == [kind |-> "header",
           cols |-> <<"timestamp", "knot_id", "knu_id", "owner",
                      "E_pred", "dR_primary", "dR_adj_sum", "weight",
                      "tokens_tt", "tokens_deg", "tx_id", "validated_by">>]

(***************************************************************************)
(* validate_eligibility                                                    *)
(***************************************************************************)
\* dict.get(key, default) on a configuration block whose keys may be absent.
Get(d, key, default) == IF key \in DOMAIN d THEN d[key] ELSE default

MsgStatus == "Status not in required"
MsgArtifacts == "No artifacts provided (required)"
MsgValidator == "No validator specified (required)"
MsgTimestamp == "No validation timestamp (required)"

\* Mutation: the validator is checked before the artifacts.
validate_eligibility_reordered(knu, elig) ==
    LET required_status == Get(elig, "required_status", {"accepted", "merged"})
        require_artifacts == Get(elig, "require_artifacts", TRUE)
        require_validation == Get(elig, "require_validation", TRUE)
    IN  IF knu.status \notin required_status THEN <<FALSE, MsgStatus>>
        ELSE IF require_validation /\ knu.validated_by = ""
             THEN <<FALSE, MsgValidator>>
        ELSE IF require_artifacts /\ knu.artifacts = <<>>
             THEN <<FALSE, MsgArtifacts>>
        ELSE IF require_validation /\ knu.validated_at = ""
             THEN <<FALSE, MsgTimestamp>>
        ELSE <<TRUE, "">>

validate_eligibility(knu, elig) ==
    LET required_status == Get(elig, "required_status", {"accepted", "merged"})
        require_artifacts == Get(elig, "require_artifacts", TRUE)
        require_validation == Get(elig, "require_validation", TRUE)
    IN  IF knu.status \notin required_status THEN <<FALSE, MsgStatus>>
        ELSE IF require_artifacts /\ knu.artifacts = <<>>
             THEN <<FALSE, MsgArtifacts>>
        ELSE IF require_validation /\ knu.validated_by = ""
             THEN <<FALSE, MsgValidator>>
        ELSE IF require_validation /\ knu.validated_at = ""
             THEN <<FALSE, MsgTimestamp>>
        ELSE <<TRUE, "">>

(***************************************************************************)
(* calculate_weights                                                       *)
(***************************************************************************)
FromInt(x) == [n |-> x, d |-> 1]

\* Lines 188-194: normalized efforts.
EffortNorm(ks) ==
    LET total_effort == IntSum([j \in 1..Len(ks) |-> ks[j].E_pred])
    IN  [j \in 1..Len(ks) |->
            IF total_effort = 0 THEN Zero ELSE Rat(ks[j].E_pred, total_effort)]

\* Mutation: the spillover is left out of the effective impact.
ImpactsNoSpillover(ks, lambda_spill) ==
    [j \in 1..Len(ks) |-> FromInt(ks[j].dR_primary)]

\* Lines 196-200: effective impacts.
Impacts(ks, lambda_spill) ==
    [j \in 1..Len(ks) |->
        RatAdd(FromInt(ks[j].dR_primary),
               RatMul(lambda_spill, FromInt(ks[j].dR_adj_sum)))]

\* Lines 202-207: normalized impacts.
ImpactNorm(ks, lambda_spill) ==
    LET impacts == Impacts(ks, lambda_spill)
        total_impact == RatSum(impacts)
    IN  [j \in 1..Len(ks) |->
            IF total_impact = Zero THEN Zero ELSE RatDiv(impacts[j], total_impact)]

\* Mutation: alpha weighs the impact and 1 - alpha the effort.
RawWeightsSwapped(ks, a, lambda_spill) ==
    LET effort_norm == EffortNorm(ks)
        impact_norm == ImpactNorm(ks, lambda_spill)
    IN  [j \in 1..Len(ks) |->
            RatAdd(RatMul(RatSub(One, a), effort_norm[j]),
                   RatMul(a, impact_norm[j]))]

\* Lines 209-213: the blended weights before renormalization.
RawWeights(ks, a, lambda_spill) ==
    LET effort_norm == EffortNorm(ks)
        impact_norm == ImpactNorm(ks, lambda_spill)
    IN  [j \in 1..Len(ks) |->
            RatAdd(RatMul(a, effort_norm[j]),
                   RatMul(RatSub(One, a), impact_norm[j]))]

\* Mutation: the weights are returned as blended, without renormalization.
NormalizeOff(weights) == weights

\* Lines 215-218: renormalization, only when the total is positive.
Normalize(weights) ==
    LET total_weight == RatSum(weights)
    IN  IF RatLt(Zero, total_weight)
        THEN [j \in 1..Len(weights) |-> RatDiv(weights[j], total_weight)]
        ELSE weights

\* The list of (knu, weight) pairs.
calculate_weights(ks, a, lambda_spill) ==
    IF ks = <<>> THEN <<>>
    ELSE LET weights == Normalize(RawWeights(ks, a, lambda_spill))
         IN  [j \in 1..Len(ks) |-> <<ks[j], weights[j]>>]

VARIABLES
    knot_id,               \* distribute argument
    knus,                  \* distribute / calculate_weights argument
    dry_run,               \* distribute argument
    pools,                 \* pools_data["pools"]: knot id -> pool_tt
    alpha,                 \* self.alpha (or the alpha argument)
    lambda_spillover,      \* self.lambda_spillover (or the lambda argument)
    eligibility,           \* pools_data["eligibility"], keys may be absent
    ledger,                \* KNU_LEDGER: [exists, rows]
    pc,                    \* position in the running call
    outcome,               \* "running", "returned" or the exception raised
    valid_knus,            \* distribute local
    weighted_knus,         \* distribute local / calculate_weights result
    pool_deg,              \* distribute local
    i,                     \* loop index, 1-based
    total_distributed_deg, \* distribute local
    dist,                  \* the Distribution built in the current iteration
    tx,                    \* tx_id parsed by execute_reward, before logging
    distributions,         \* distribute local, the returned list
    allocs,                \* every Distribution built by the call, in order
    calls,                 \* every invocation of the reward CLI, in order
    stderr,                \* the messages printed to sys.stderr, in order
    validation             \* result of a validate_eligibility call

vars == <<knot_id, knus, dry_run, pools, alpha, lambda_spillover, eligibility,
          ledger, pc, outcome, valid_knus, weighted_knus, pool_deg, i,
          total_distributed_deg, dist, tx, distributions, allocs, calls,
          stderr, validation>>

(***************************************************************************)
(* Inputs of the model.                                                    *)
(***************************************************************************)
KnuIds == <<"KNU-001", "KNU-002", "KNU-003", "KNU-004">>
Owners == <<"alice", "bob", "carol", "dave">>
\* The transaction ids the reward service may print.
TxIds == {"TX-000001", "TX-000002"}

\* The j-th record of a batch: identifiers are unique within a batch.
MkKnu(j, knot, status, e, dr, adj) ==
    [knu_id |-> KnuIds[j], knot_id |-> knot, owner |-> Owners[j],
     E_pred |-> e, dR_primary |-> dr, dR_adj_sum |-> adj,
     status |-> status, artifacts |-> <<"evidence.md">>,
     validated_by |-> "owner-k06", validated_at |-> "2025-01-01T00:00:00Z"]

\* <<knot, status, E_pred, dR_primary, dR_adj_sum>> of the records given to
\* distribute: records of the requested group with no signal, effort only,
\* impact only, both, and a negative impact; an eligible record of another
\* group; a record of the requested group that is not eligible.
DistributeKinds ==
    {<<"K06", "accepted", 0, 0, 0>>,
     <<"K06", "accepted", 2, 0, 0>>,
     <<"K06", "merged", 0, 3, 0>>,
     <<"K06", "accepted", 1, 2, 1>>,
     <<"K06", "accepted", 0, -1, 0>>,
     <<"K07", "accepted", 1, 2, 1>>,
     <<"K06", "pending", 1, 2, 1>>}

DefaultEligibility ==
    [k \in {"required_status", "require_artifacts", "require_validation"} |->
        IF k = "required_status" THEN {"accepted", "merged"} ELSE TRUE]

\* A row written by an earlier run.
OldRow ==
    [kind |-> "data", knot_id |-> "K01", knu_id |-> "KNU-000", owner |-> "erin",
     E_pred |-> 1, dR_primary |-> 1, dR_adj_sum |-> 0, weight |-> One,
     tokens_tt |-> One, tokens_deg |-> 360, tx_id |-> "TX-000000",
     validated_by |-> "owner-k01"]

Ledgers ==
    {[exists |-> FALSE, rows |-> <<>>],
     [exists |-> TRUE, rows |-> <<>>],
     [exists |-> TRUE, rows |-> <<Header, OldRow>>]}

NoDist == [knu_id |-> "", owner |-> "", weight |-> Zero, tokens_tt |-> Zero,
           tokens_deg |-> 0, tx_id |-> ""]

(***************************************************************************)
(* distribute                                                              *)
(***************************************************************************)
Init ==
    /\ knot_id \in {"K06", "K99"}
    /\ \E n \in 0..MaxKnus :
         \E f \in [1..n -> DistributeKinds] :
            knus = [j \in 1..n |->
                      MkKnu(j, f[j][1], f[j][2], f[j][3], f[j][4], f[j][5])]
    /\ dry_run \in BOOLEAN
    /\ \E p \in {Rat(1, 80), Rat(1, 1)} : pools = [k \in {"K06", "K07"} |-> p]
    /\ alpha \in {Rat(0, 1), Rat(3, 10), Rat(1, 1)}
    /\ lambda_spillover = Rat(1, 2)
    /\ eligibility = DefaultEligibility
    /\ ledger \in Ledgers
    /\ pc = "load"
    /\ outcome = "running"
    /\ valid_knus = <<>>
    /\ weighted_knus = <<>>
    /\ pool_deg = 0
    /\ i = 1
    /\ total_distributed_deg = 0
    /\ dist = NoDist
    /\ tx = ""
    /\ distributions = <<>>
    /\ allocs = <<>>
    /\ calls = <<>>
    /\ stderr = <<>>
    /\ validation = <<TRUE, "">>

\* Lines 355-356 and load_pool_config: ConfigError when the group has no pool.
LoadPoolConfig ==
    /\ pc = "load"
    /\ IF knot_id \notin DOMAIN pools
       THEN /\ pc' = "done"
            /\ outcome' = "ConfigError"
       ELSE /\ pc' = "validate"
            /\ outcome' = outcome
    /\ UNCHANGED <<knot_id, knus, dry_run, pools, alpha, lambda_spillover,
                   eligibility, ledger, valid_knus, weighted_knus, pool_deg, i,
                   total_distributed_deg, dist, tx, distributions, allocs,
                   calls, stderr, validation>>

\* Mutation: the record's group is not compared with the requested one.
SurvivesAnyGroup(knu, knot, elig) == validate_eligibility(knu, elig)[1]

\* Lines 360-374: a record is kept when it is eligible and of the group.
Survives(knu, knot, elig) ==
    /\ validate_eligibility(knu, elig)[1]
    /\ knu.knot_id = knot

RECURSIVE Reverse(_)
Reverse(q) == IF q = <<>> THEN <<>> ELSE Append(Reverse(Tail(q)), Head(q))

\* Mutation: the surviving records are kept in reverse input order.
FilterKnusReversed(ks, knot, elig) ==
    Reverse(SelectSeq(ks, LAMBDA knu : Survives(knu, knot, elig)))

\* Mutation: nothing is filtered out.
FilterKnusKeepAll(ks, knot, elig) == ks

FilterKnus(ks, knot, elig) ==
    SelectSeq(ks, LAMBDA knu : Survives(knu, knot, elig))

\* Lines 362-372: what is printed for a skipped record.
SkipMessage(knu, knot, elig) ==
    IF ~validate_eligibility(knu, elig)[1]
    THEN [knu_id |-> knu.knu_id, msg |-> validate_eligibility(knu, elig)[2]]
    ELSE [knu_id |-> knu.knu_id, msg |-> "belongs to another KNOT"]

RECURSIVE SkipMessages(_, _, _)
SkipMessages(ks, knot, elig) ==
    IF ks = <<>> THEN <<>>
    ELSE (IF Survives(Head(ks), knot, elig) THEN <<>>
          ELSE <<SkipMessage(Head(ks), knot, elig)>>)
         \o SkipMessages(Tail(ks), knot, elig)

\* Lines 358-377: the filtering loop, ValidationError when nothing is left.
ValidateKnus ==
    /\ pc = "validate"
    /\ valid_knus' = FilterKnus(knus, knot_id, eligibility)
    /\ stderr' = stderr \o SkipMessages(knus, knot_id, eligibility)
    /\ IF valid_knus' = <<>>
       THEN /\ pc' = "done"
            /\ outcome' = "ValidationError"
       ELSE /\ pc' = "weights"
            /\ outcome' = outcome
    /\ UNCHANGED <<knot_id, knus, dry_run, pools, alpha, lambda_spillover,
                   eligibility, ledger, weighted_knus, pool_deg, i,
                   total_distributed_deg, dist, tx, distributions, allocs,
                   calls, validation>>

\* Mutation: the pool is rounded to the nearest deg instead of truncated.
PoolDegRounded(pool_tt) ==
    PyInt(RatAdd(RatMul(pool_tt, FromInt(DEG_PER_TT)), Rat(1, 2)))

\* Line 385: pool_deg = int(pool.pool_tt * DEG_PER_TT).
PoolDeg(pool_tt) == PyInt(RatMul(pool_tt, FromInt(DEG_PER_TT)))

\* Lines 379-389.
CalculateWeights ==
    /\ pc = "weights"
    /\ weighted_knus' = calculate_weights(valid_knus, alpha, lambda_spillover)
    /\ pool_deg' = PoolDeg(pools[knot_id])
    /\ i' = 1
    /\ total_distributed_deg' = 0
    /\ distributions' = <<>>
    /\ pc' = "alloc"
    /\ UNCHANGED <<knot_id, knus, dry_run, pools, alpha, lambda_spillover,
                   eligibility, ledger, outcome, valid_knus, dist, tx, allocs,
                   calls, stderr, validation>>

\* Mutation: every record gets int(pool_deg * weight), the last one too.
AllocatedDegNoRemainder(pd, weight, idx, n, total) ==
    PyInt(RatMul(FromInt(pd), weight))

\* Lines 393-400: the amount of the record at position idx of n.
AllocatedDeg(pd, weight, idx, n, total) ==
    IF idx = n THEN pd - total
    ELSE PyInt(RatMul(FromInt(pd), weight))

\* Mutation: the dry_run flag is ignored.
DoExecuteAlways(dry) == TRUE

\* Line 414: rewards are executed unless the run is a dry run.
DoExecute(dry) == ~dry

\* End of one loop iteration: next record, or return distributions.
Advance ==
    /\ i' = i + 1
    /\ IF i < Len(weighted_knus)
       THEN /\ pc' = "alloc"
            /\ outcome' = outcome
       ELSE /\ pc' = "done"
            /\ outcome' = "returned"

\* Lines 391-411, and 436-439 in a dry run.
Allocate ==
    /\ pc = "alloc"
    /\ LET knu == weighted_knus[i][1]
           weight == weighted_knus[i][2]
           allocated_deg == AllocatedDeg(pool_deg, weight, i,
                                         Len(weighted_knus),
                                         total_distributed_deg)
           d == [knu_id |-> knu.knu_id, owner |-> knu.owner,
                 weight |-> weight,
                 tokens_tt |-> Rat(allocated_deg, DEG_PER_TT),
                 tokens_deg |-> allocated_deg, tx_id |-> ""]
       IN  /\ total_distributed_deg' = total_distributed_deg + allocated_deg
           /\ allocs' = Append(allocs, d)
           /\ IF ~DoExecute(dry_run)
              THEN /\ distributions' = Append(distributions, d)
                   /\ dist' = dist
                   /\ Advance
              ELSE /\ dist' = d
                   /\ pc' = "exec"
                   /\ UNCHANGED <<distributions, i, outcome>>
    /\ UNCHANGED <<knot_id, knus, dry_run, pools, alpha, lambda_spillover,
                   eligibility, ledger, valid_knus, weighted_knus, pool_deg,
                   tx, calls, stderr, validation>>

MsgRewardFailed == "Failed to reward: TT reward failed"
MsgUnparsed == "Failed to reward: Could not parse transaction ID"

\* Mutation: the exit status is reported but the output is parsed and logged
\* all the same.
ExecuteRewardLogsFailure ==
    /\ pc = "exec"
    /\ calls' = Append(calls, [owner |-> dist.owner, tt_amount |-> dist.tokens_tt])
    /\ \/ /\ stderr' = Append(stderr, [knu_id |-> dist.knu_id,
                                       msg |-> MsgRewardFailed])
          /\ tx' \in TxIds
          /\ pc' = "log"
          /\ UNCHANGED <<i, outcome>>
       \/ /\ stderr' = Append(stderr, [knu_id |-> dist.knu_id,
                                       msg |-> MsgUnparsed])
          /\ tx' = tx
          /\ Advance
       \/ /\ tx' \in TxIds
          /\ pc' = "log"
          /\ UNCHANGED <<i, outcome, stderr>>
    /\ UNCHANGED <<knot_id, knus, dry_run, pools, alpha, lambda_spillover,
                   eligibility, ledger, valid_knus, weighted_knus, pool_deg,
                   total_distributed_deg, dist, distributions, allocs,
                   validation>>

\* Mutation: a reward call that exits with a non-zero status is made a
\* second time before the failure is raised.
ExecuteRewardRetries ==
    /\ pc = "exec"
    /\ \/ /\ calls' = calls \o <<[owner |-> dist.owner, tt_amount |-> dist.tokens_tt],
                                 [owner |-> dist.owner, tt_amount |-> dist.tokens_tt]>>
          /\ stderr' = Append(stderr, [knu_id |-> dist.knu_id,
                                       msg |-> MsgRewardFailed])
          /\ tx' = tx
          /\ Advance
       \/ /\ calls' = Append(calls, [owner |-> dist.owner, tt_amount |-> dist.tokens_tt])
          /\ stderr' = Append(stderr, [knu_id |-> dist.knu_id,
                                       msg |-> MsgUnparsed])
          /\ tx' = tx
          /\ Advance
       \/ /\ calls' = Append(calls, [owner |-> dist.owner, tt_amount |-> dist.tokens_tt])
          /\ tx' \in TxIds
          /\ pc' = "log"
          /\ UNCHANGED <<i, outcome, stderr>>
    /\ UNCHANGED <<knot_id, knus, dry_run, pools, alpha, lambda_spillover,
                   eligibility, ledger, valid_knus, weighted_knus, pool_deg,
                   total_distributed_deg, dist, distributions, allocs,
                   validation>>

\* execute_reward, lines 261-292: the reward CLI is run with the owner and
\* the TT amount.  A non-zero exit status, or an output with no TX-dddddd,
\* raises DistributionError, which distribute catches and prints (lines
\* 433-435) before going on to the next record.  (subprocess.run is called without timeout
\* and with check=False: it raises no SubprocessError.)
ExecuteReward ==
    /\ pc = "exec"
    /\ calls' = Append(calls, [owner |-> dist.owner, tt_amount |-> dist.tokens_tt])
    /\ \/ \* returncode != 0
          /\ stderr' = Append(stderr, [knu_id |-> dist.knu_id,
                                       msg |-> MsgRewardFailed])
          /\ tx' = tx
          /\ Advance
       \/ \* returncode = 0, no TX-dddddd in the output
          /\ stderr' = Append(stderr, [knu_id |-> dist.knu_id,
                                       msg |-> MsgUnparsed])
          /\ tx' = tx
          /\ Advance
       \/ \* returncode = 0, the output carries a transaction id
          /\ tx' \in TxIds
          /\ pc' = "log"
          /\ UNCHANGED <<i, outcome, stderr>>
    /\ UNCHANGED <<knot_id, knus, dry_run, pools, alpha, lambda_spillover,
                   eligibility, ledger, valid_knus, weighted_knus, pool_deg,
                   total_distributed_deg, dist, distributions, allocs,
                   validation>>

\* Lines 415-427: the metadata of the current record, as a ledger row
\* (the timestamp column is the wall clock and is left out).
LedgerRow(knot, knu, d, tx_id) ==
    [kind |-> "data", knot_id |-> knot, knu_id |-> knu.knu_id,
     owner |-> knu.owner, E_pred |-> knu.E_pred,
     dR_primary |-> knu.dR_primary, dR_adj_sum |-> knu.dR_adj_sum,
     weight |-> d.weight, tokens_tt |-> d.tokens_tt,
     tokens_deg |-> d.tokens_deg, tx_id |-> tx_id,
     validated_by |-> knu.validated_by]

\* Mutation: the data row is written twice.
LogToCsvRowTwice(l, row) ==
    [exists |-> TRUE,
     rows |-> l.rows
              \o (IF ~l.exists \/ l.rows = <<>> THEN <<Header>> ELSE <<>>)
              \o <<row, row>>]

\* Mutation: the header is written by every append.
LogToCsvHeaderAlways(l, row) ==
    [exists |-> TRUE, rows |-> l.rows \o <<Header>> \o <<row>>]

\* Mutation: the ledger is opened in write mode, which truncates it.
LogToCsvTruncating(l, row) ==
    [exists |-> TRUE, rows |-> <<Header, row>>]

\* _log_to_csv, lines 304-334: open in append mode, header when the file is
\* new or empty, then the row.
LogToCsv(l, row) ==
    [exists |-> TRUE,
     rows |-> l.rows
              \o (IF ~l.exists \/ l.rows = <<>> THEN <<Header>> ELSE <<>>)
              \o <<row>>]

\* Mutation: the transaction id is handed to distribute before the ledger
\* is written, so that it is returned even when the write fails.
LogAndReturnReturnsFirst ==
    /\ pc = "log"
    /\ distributions' = Append(distributions, [dist EXCEPT !.tx_id = tx])
    /\ \/ /\ ledger' = LogToCsv(ledger,
                         LedgerRow(knot_id, weighted_knus[i][1], dist, tx))
          /\ Advance
       \/ /\ pc' = "done"
          /\ outcome' = "OSError"
          /\ UNCHANGED <<ledger, i>>
    /\ UNCHANGED <<knot_id, knus, dry_run, pools, alpha, lambda_spillover,
                   eligibility, valid_knus, weighted_knus, pool_deg,
                   total_distributed_deg, dist, tx, allocs, calls, stderr,
                   validation>>

\* Lines 294-297 and 431-439: the row is appended, the tx id returned and
\* stored in the Distribution, which joins the result.  An OSError of the
\* ledger write (mkdir or open failing) is no DistributionError: it is not
\* caught by distribute and ends the call.
LogAndReturn ==
    /\ pc = "log"
    /\ \/ /\ ledger' = LogToCsv(ledger,
                         LedgerRow(knot_id, weighted_knus[i][1], dist, tx))
          /\ distributions' = Append(distributions, [dist EXCEPT !.tx_id = tx])
          /\ Advance
       \/ /\ pc' = "done"
          /\ outcome' = "OSError"
          /\ UNCHANGED <<ledger, distributions, i>>
    /\ UNCHANGED <<knot_id, knus, dry_run, pools, alpha, lambda_spillover,
                   eligibility, valid_knus, weighted_knus, pool_deg,
                   total_distributed_deg, dist, tx, allocs, calls, stderr,
                   validation>>

Next ==
    \/ LoadPoolConfig
    \/ ValidateKnus
    \/ CalculateWeights
    \/ Allocate
    \/ ExecuteReward
    \/ LogAndReturn

Spec == Init /\ [][Next]_vars

\* The step that leaves line 380: control passes from the weights to the
\* loop.  Of the steps of Next it is CalculateWeights, which is a guard on pc
\* followed by assignments, and so is enabled exactly when pc = "weights".
WeightsStep == pc = "weights" /\ pc' = "alloc"

\* distribute is sequential code: while the call has not ended its next step
\* is taken, every reward call and ledger write returning or raising.
Fairness ==
    /\ WF_vars(LoadPoolConfig \/ ValidateKnus \/ Allocate \/ ExecuteReward
                  \/ LogAndReturn)
    /\ WF_pc(WeightsStep)

\* The calls whose termination is checked: those of Init at the default
\* alpha, on the ledger of an earlier run.
InitFair ==
    /\ Init
    /\ alpha = Rat(3, 10)
    /\ ledger.rows # <<>>

SpecFair == InitFair /\ [][Next]_vars /\ Fairness

(***************************************************************************)
(* calculate_weights called on its own, with explicit alpha and lambda.    *)
(***************************************************************************)
WeightEfforts == {0, 1, 2}
WeightPrimaries == {-1, 0, 2}
WeightSpillovers == {0, 1}
WeightAlphas == {Rat(0, 1), Rat(3, 10), Rat(4, 5), Rat(1, 1)}
WeightLambdas == {Rat(0, 1), Rat(1, 2)}

\* Batches of the test suite: test_weight_calculation_no_effort (impacts 50
\* and 30) and test_weight_calculation_no_impact (efforts 8 and 2).
TestBatches ==
    {<<MkKnu(1, "K06", "accepted", 0, 50, 0), MkKnu(2, "K06", "accepted", 0, 30, 0)>>,
     <<MkKnu(1, "K06", "accepted", 8, 0, 0), MkKnu(2, "K06", "accepted", 2, 0, 0)>>}

InitWeights ==
    /\ \/ \E n \in 0..MaxKnus :
            \E f \in [1..n -> WeightEfforts \X WeightPrimaries \X WeightSpillovers] :
               knus = [j \in 1..n |->
                         MkKnu(j, "K06", "accepted", f[j][1], f[j][2], f[j][3])]
       \/ knus \in TestBatches
    /\ alpha \in WeightAlphas
    /\ lambda_spillover \in WeightLambdas
    /\ pc = "calc"
    /\ knot_id = "K06"
    /\ dry_run = TRUE
    /\ pools = [k \in {"K06"} |-> One]
    /\ eligibility = DefaultEligibility
    /\ ledger = [exists |-> FALSE, rows |-> <<>>]
    /\ outcome = "running"
    /\ valid_knus = <<>>
    /\ weighted_knus = <<>>
    /\ pool_deg = 0
    /\ i = 1
    /\ total_distributed_deg = 0
    /\ dist = NoDist
    /\ tx = ""
    /\ distributions = <<>>
    /\ allocs = <<>>
    /\ calls = <<>>
    /\ stderr = <<>>
    /\ validation = <<TRUE, "">>

CalculateWeightsCall ==
    /\ pc = "calc"
    /\ weighted_knus' = calculate_weights(knus, alpha, lambda_spillover)
    /\ pc' = "calc_done"
    /\ outcome' = "returned"
    /\ UNCHANGED <<knot_id, knus, dry_run, pools, alpha, lambda_spillover,
                   eligibility, ledger, valid_knus, pool_deg, i,
                   total_distributed_deg, dist, tx, distributions, allocs,
                   calls, stderr, validation>>

NextWeights == CalculateWeightsCall

SpecWeights == InitWeights /\ [][NextWeights]_vars

(***************************************************************************)
(* validate_eligibility called on its own, over every record shape and     *)
(* eligibility block.                                                      *)
(***************************************************************************)
Statuses == {"pending", "accepted", "merged", "rejected"}

EligibilityBlocks ==
    {[k \in K |-> IF k = "required_status" THEN rs
                  ELSE IF k = "require_artifacts" THEN ra ELSE rv] :
        K \in SUBSET {"required_status", "require_artifacts", "require_validation"},
        rs \in {{"accepted", "merged"}, {"merged", "pending"}},
        ra \in BOOLEAN, rv \in BOOLEAN}

InitElig ==
    /\ \E st \in Statuses, ar \in {<<>>, <<"evidence.md">>},
          vb \in {"", "owner-k06"}, va \in {"", "2025-01-01T00:00:00Z"} :
         knus = <<[MkKnu(1, "K06", st, 1, 2, 1) EXCEPT
                     !.artifacts = ar, !.validated_by = vb,
                     !.validated_at = va]>>
    /\ eligibility \in EligibilityBlocks
    /\ pc = "check"
    /\ knot_id = "K06"
    /\ dry_run = TRUE
    /\ pools = [k \in {"K06"} |-> One]
    /\ alpha = Rat(3, 10)
    /\ lambda_spillover = Rat(1, 2)
    /\ ledger = [exists |-> FALSE, rows |-> <<>>]
    /\ outcome = "running"
    /\ valid_knus = <<>>
    /\ weighted_knus = <<>>
    /\ pool_deg = 0
    /\ i = 1
    /\ total_distributed_deg = 0
    /\ dist = NoDist
    /\ tx = ""
    /\ distributions = <<>>
    /\ allocs = <<>>
    /\ calls = <<>>
    /\ stderr = <<>>
    /\ validation = <<FALSE, "not called">>

ValidateEligibilityCall ==
    /\ pc = "check"
    /\ validation' = validate_eligibility(knus[1], eligibility)
    /\ pc' = "check_done"
    /\ outcome' = "returned"
    /\ UNCHANGED <<knot_id, knus, dry_run, pools, alpha, lambda_spillover,
                   eligibility, ledger, valid_knus, weighted_knus, pool_deg, i,
                   total_distributed_deg, dist, tx, distributions, allocs,
                   calls, stderr>>

NextElig == ValidateEligibilityCall

SpecElig == InitElig /\ [][NextElig]_vars

(***************************************************************************)
(* Properties.                                                             *)
(***************************************************************************)
IsPrefix(s, t) == Len(s) <= Len(t) /\ SubSeq(t, 1, Len(s)) = s

\* floor of a rational
Floor(r) == IF r.n >= 0 THEN r.n \div r.d ELSE -((-r.n + r.d - 1) \div r.d)

\* The call has passed filtering without raising.
Ended == pc = "done"
Returned == pc = "done" /\ outcome = "returned"

\* The records of the input that pass the default eligibility rules and are
\* of the requested group, stated on the record fields.
IsSurvivor(knu) ==
    /\ knu.knot_id = knot_id
    /\ knu.status \in {"accepted", "merged"}
    /\ knu.artifacts # <<>>
    /\ knu.validated_by # ""
    /\ knu.validated_at # ""
SurvivorIdx == {j \in 1..Len(knus) : IsSurvivor(knus[j])}

TokensDeg(ds) == [k \in 1..Len(ds) |-> ds[k].tokens_deg]

\* C1: when distribute returns, the tokens_deg of all the allocations it
\* computed sum to exactly floor(pool_tt * 360).
C1_ExactSum ==
    Returned =>
        IntSum(TokensDeg(allocs)) = Floor(RatMul(pools[knot_id], FromInt(360)))

\* C1 witness: a non-dry run returned after computing several allocations,
\* one of them rounded (its amount is not pool_deg * weight) and one failed.
C1_Witness ==
    /\ Returned
    /\ ~dry_run
    /\ Len(allocs) >= 2
    /\ Len(distributions) < Len(allocs)
    /\ \E k \in 1..(Len(allocs) - 1) :
          /\ allocs[k].tokens_deg > 0
          /\ allocs[k].tokens_deg * allocs[k].weight.d < pool_deg * allocs[k].weight.n

\* The rows this run has appended are the last rows of the ledger: one per
\* returned distribution, in order, with its transaction id.
RunRowsIntact ==
    /\ Len(ledger.rows) >= Len(distributions)
    /\ \A k \in 1..Len(distributions) :
          LET row == ledger.rows[Len(ledger.rows) - Len(distributions) + k]
          IN  /\ row.kind = "data"
              /\ row.knu_id = distributions[k].knu_id
              /\ row.tx_id = distributions[k].tx_id
              /\ row.tokens_deg = distributions[k].tokens_deg

\* C2 (as claimed): in a non-dry run that got to executing rewards, whatever
\* fails for one allocation (exit status, unparseable output, ledger write),
\* every allocation of the batch is still attempted, and the rows written
\* earlier stay as they were.
C2_FailureDoesNotStopBatch ==
    (Ended /\ ~dry_run /\ calls # <<>>) =>
        /\ Len(calls) = Cardinality(SurvivorIdx)
        /\ RunRowsIntact

\* C3: a dry run calls the reward service never and leaves the ledger as it
\* is; it raises no execution or ledger error, and returns one allocation per
\* surviving record, in input order, each with an empty transaction id.
C3_DryRunInv ==
    dry_run =>
        /\ calls = <<>>
        /\ outcome # "OSError"
        /\ \A k \in 1..Len(stderr) :
              stderr[k].msg \notin {MsgRewardFailed, MsgUnparsed}
        /\ Returned =>
              /\ Len(distributions) = Cardinality(SurvivorIdx)
              /\ \A k \in 1..Len(distributions) :
                    /\ distributions[k].tx_id = ""
                    /\ \E j \in SurvivorIdx :
                          /\ knus[j].knu_id = distributions[k].knu_id
                          /\ Cardinality({m \in SurvivorIdx : m <= j}) = k

C3_DryRun == [](C3_DryRunInv) /\ [][dry_run => ledger' = ledger]_vars

\* C3 witness: a dry run over a non-empty ledger returned two allocations.
C3_Witness ==
    /\ Returned
    /\ dry_run
    /\ Len(distributions) >= 2
    /\ ledger.rows # <<>>

\* C4: the ledger is append-only: every step leaves the rows it had as a
\* prefix of the rows it has, and never removes the file.
C4_AppendOnly ==
    [][/\ IsPrefix(ledger.rows, ledger'.rows)
       /\ ledger.exists => ledger'.exists]_vars

\* C4 witness: a row was appended behind the rows of an earlier run, in a
\* run in which another execution failed.
C4_Witness ==
    /\ Len(ledger.rows) >= 3
    /\ ledger.rows[2] = OldRow
    /\ \E k \in 1..Len(stderr) : stderr[k].msg \in {MsgRewardFailed, MsgUnparsed}

(***************************************************************************)
(* Properties of calculate_weights (SpecWeights).                          *)
(***************************************************************************)
Called == pc = "calc_done"

WeightsOf(wk) == [k \in 1..Len(wk) |-> wk[k][2]]

\* Totals of a batch, from the fields of its records.
TotalEffort(ks) == IntSum([j \in 1..Len(ks) |-> ks[j].E_pred])
TotalImpact(ks) ==
    RatAdd(FromInt(IntSum([j \in 1..Len(ks) |-> ks[j].dR_primary])),
           RatMul(lambda_spillover,
                  FromInt(IntSum([j \in 1..Len(ks) |-> ks[j].dR_adj_sum]))))

\* Some term of the blend alpha * effort + (1 - alpha) * impact is present.
BlendPresent(ks) ==
    \/ TotalEffort(ks) # 0 /\ alpha # Zero
    \/ TotalImpact(ks) # Zero /\ alpha # One

C10_ZeroEffortGivesImpactShare ==
    (Called /\ knus # <<>> /\ TotalEffort(knus) = 0
        /\ RatLt(Zero, TotalImpact(knus))) =>
        \A k \in 1..Len(knus) :
            weighted_knus[k][2] =
                RatDiv(RatAdd(FromInt(knus[k].dR_primary),
                              RatMul(lambda_spillover, FromInt(knus[k].dR_adj_sum))),
                       TotalImpact(knus))

(***************************************************************************)
(* Properties of validate_eligibility (SpecElig).                          *)
(***************************************************************************)
Checked == pc = "check_done"

StatusOk == knus[1].status \in Get(eligibility, "required_status", {"accepted", "merged"})
ArtifactsOk == ~Get(eligibility, "require_artifacts", TRUE) \/ Len(knus[1].artifacts) > 0
ValidatorOk == ~Get(eligibility, "require_validation", TRUE) \/ knus[1].validated_by # ""
TimestampOk == ~Get(eligibility, "require_validation", TRUE) \/ knus[1].validated_at # ""

C6_Inv ==
    Checked =>
        /\ validation[1] <=> (StatusOk /\ ArtifactsOk /\ ValidatorOk /\ TimestampOk)
        /\ validation[1] <=> (validation[2] = "")
        /\ ~StatusOk => validation[2] = MsgStatus
        /\ (StatusOk /\ ~ArtifactsOk) => validation[2] = MsgArtifacts
        /\ (StatusOk /\ ArtifactsOk /\ ~ValidatorOk) => validation[2] = MsgValidator
        /\ (StatusOk /\ ArtifactsOk /\ ValidatorOk /\ ~TimestampOk) =>
              validation[2] = MsgTimestamp

\* C6: validate_eligibility checks status, then artifacts, then validator,
\* then validation timestamp, and the first rule that fails gives the
\* reason; the record is accepted exactly when every enabled rule passes,
\* and exactly then is the reason empty; the call changes nothing but its
\* result.
C6_EligibilityRulesInOrder ==
    /\ [](C6_Inv)
    /\ [][pc = "check" =>
            UNCHANGED <<knus, eligibility, pools, alpha, lambda_spillover,
                        ledger, calls, stderr>>]_vars

\* C6 witness: a record with an allowed status, no artifacts and no
\* validator, both required, was rejected for its artifacts.
C6_Witness ==
    /\ Checked
    /\ StatusOk
    /\ knus[1].artifacts = <<>>
    /\ knus[1].validated_by = ""
    /\ ~ArtifactsOk
    /\ ~ValidatorOk
    /\ validation = <<FALSE, MsgArtifacts>>

(***************************************************************************)
(* Properties of distribute: groups, errors, single record (Spec).         *)
(***************************************************************************)
ForeignIdx == {j \in 1..Len(knus) : knus[j].knot_id # knot_id}
ForeignIds == {knus[j].knu_id : j \in ForeignIdx}
ForeignOwners == {knus[j].owner : j \in ForeignIdx}

\* The input without the records of other groups.
OwnGroupKnus == SelectSeq(knus, LAMBDA knu : knu.knot_id = knot_id)

\* The amount distribute gives the k-th of the weights ws of a pool pd.
AmountFor(ws, pd, k) ==
    AllocatedDeg(pd, ws[k], k, Len(ws),
                 IntSum([j \in 1..(k - 1) |->
                            AllocatedDeg(pd, ws[j], j, Len(ws), 0)]))

\* The records distribute keeps when the foreign records are taken out of
\* its input.
ValidWithoutForeign == FilterKnus(OwnGroupKnus, knot_id, eligibility)

\* C7: no allocation, reward call or ledger row of a distribute call is for a
\* record of another group, and the weights and amounts of the other records
\* are those of the same input without the foreign records: the weights are
\* compared when the loop is entered, the allocations as they are built.
C7_ForeignGroupExcluded ==
    /\ \A k \in 1..Len(allocs) : allocs[k].knu_id \notin ForeignIds
    /\ \A k \in 1..Len(distributions) : distributions[k].knu_id \notin ForeignIds
    /\ \A k \in 1..Len(calls) : calls[k].owner \notin ForeignOwners
    /\ \A k \in 1..Len(ledger.rows) :
          ledger.rows[k].kind = "data" => ledger.rows[k].knu_id \notin ForeignIds
    /\ (pc = "alloc" /\ allocs = <<>>) =>
          weighted_knus = calculate_weights(ValidWithoutForeign, alpha, lambda_spillover)
    /\ allocs # <<>> =>
          \A ws \in {WeightsOf(weighted_knus)}, pd \in {PoolDeg(pools[knot_id])} :
             \A k \in 1..Len(allocs) :
                /\ allocs[k].knu_id = ValidWithoutForeign[k].knu_id
                /\ allocs[k].weight = ws[k]
                /\ allocs[k].tokens_deg = AmountFor(ws, pd, k)

\* C7 witness: a non-dry run whose input held an eligible record of another
\* group returned after paying and logging a record of the requested group.
C7_Witness ==
    /\ Returned
    /\ ~dry_run
    /\ \E j \in ForeignIdx : knus[j].status = "accepted"
    /\ Len(distributions) >= 1
    /\ Len(calls) = Len(knus) - Cardinality(ForeignIdx)
    /\ ledger.rows[Len(ledger.rows)].knu_id = distributions[Len(distributions)].knu_id

C8_Inv ==
    /\ (Ended /\ knot_id \notin DOMAIN pools) => outcome = "ConfigError"
    /\ (Ended /\ knot_id \in DOMAIN pools /\ SurvivorIdx = {}) =>
          outcome = "ValidationError"
    /\ outcome = "ConfigError" => knot_id \notin DOMAIN pools
    /\ outcome = "ValidationError" => SurvivorIdx = {}
    /\ outcome \in {"ConfigError", "ValidationError"} =>
          /\ Ended
          /\ calls = <<>>
          /\ allocs = <<>>
          /\ weighted_knus = <<>>
          /\ ledger \in Ledgers

\* C8: distribute raises ConfigError when the group has no pool, and
\* ValidationError when no record survives the filtering; both are raised
\* before any reward call, and no step up to them writes the ledger.
C8_ErrorsBeforeAnyEffect ==
    /\ [](C8_Inv)
    /\ [][(pc \in {"load", "validate"}) => (ledger' = ledger)]_vars

\* C8 witness: ValidationError for a batch of one foreign and one ineligible
\* record, the ledger of an earlier run still as it was.
C8_Witness ==
    /\ outcome = "ValidationError"
    /\ Len(knus) = 2
    /\ ForeignIdx # {}
    /\ \E j \in 1..Len(knus) : knus[j].status = "pending"
    /\ ledger.rows = <<Header, OldRow>>

SingleSurvivor == Cardinality(SurvivorIdx) = 1
TheSurvivor == knus[CHOOSE j \in SurvivorIdx : TRUE]

EffectiveImpact(knu) ==
    RatAdd(FromInt(knu.dR_primary),
           RatMul(lambda_spillover, FromInt(knu.dR_adj_sum)))

\* C11 (as claimed): when every record's effective impact is zero and the
\* total effort is positive, each weight is the record's share of the
\* effort, E_i / sum of efforts, for every alpha in [0,1].
C11_ZeroImpactGivesEffortShare ==
    (Called /\ knus # <<>> /\ TotalEffort(knus) > 0
        /\ \A j \in 1..Len(knus) : EffectiveImpact(knus[j]) = Zero) =>
        \A k \in 1..Len(knus) :
            weighted_knus[k][2] = Rat(knus[k].E_pred, TotalEffort(knus))

\* Shares of the total effort and of the total effective impact.
EffortShare(ks, j) == Rat(ks[j].E_pred, TotalEffort(ks))
ImpactShare(ks, j) == RatDiv(EffectiveImpact(ks[j]), TotalImpact(ks))

\* In the batch of two, record a has the larger effort share and record b
\* the larger impact share.
MoreEffortLessImpact(a, b) ==
    /\ Len(knus) = 2
    /\ TotalEffort(knus) # 0
    /\ TotalImpact(knus) # Zero
    /\ RatLt(EffortShare(knus, b), EffortShare(knus, a))
    /\ RatLt(ImpactShare(knus, a), ImpactShare(knus, b))

\* The weight calculate_weights gives record k of the batch at another alpha.
WeightAt(a2, k) == calculate_weights(knus, a2, lambda_spillover)[k][2]

\* C12: in a batch of two where record A has the larger effort share and
\* record B the larger impact share, calculate_weights at any larger alpha
\* gives A a strictly larger and B a strictly smaller weight than the
\* weights it returned.
C12_AlphaShiftsTowardEffort ==
    (Called /\ Len(knus) = 2) =>
        \A A \in 1..2 :
            MoreEffortLessImpact(A, 3 - A) =>
                \A a2 \in WeightAlphas :
                    RatLt(alpha, a2) =>
                        /\ RatLt(weighted_knus[A][2], WeightAt(a2, A))
                        /\ RatLt(WeightAt(a2, 3 - A), weighted_knus[3 - A][2])

\* C12 witness: at alpha = 0.3 the record with more effort and less impact
\* has the smaller weight, and at alpha = 0.8 it would have the larger.
C12_Witness ==
    /\ Called
    /\ MoreEffortLessImpact(1, 2)
    /\ alpha = Rat(3, 10)
    /\ RatLt(weighted_knus[1][2], weighted_knus[2][2])
    /\ RatLt(WeightAt(Rat(4, 5), 2), WeightAt(Rat(4, 5), 1))

\* Record j has spillover, record k has none, and they have the same effort
\* and the same primary impact.
Twins(j, k) ==
    /\ knus[j].E_pred = knus[k].E_pred
    /\ knus[j].dR_primary = knus[k].dR_primary
    /\ knus[j].dR_adj_sum # 0
    /\ knus[k].dR_adj_sum = 0

\* C13 (as claimed): of two records identical but for the spillover of one,
\* calculate_weights gives both the same weight at lambda = 0, and the one
\* with spillover the strictly larger weight at any lambda > 0.
C13_SpilloverRaisesWeight ==
    (Called /\ Len(knus) = 2) =>
        \A j, k \in 1..2 :
            Twins(j, k) =>
                /\ lambda_spillover = Zero =>
                      weighted_knus[j][2] = weighted_knus[k][2]
                /\ RatLt(Zero, lambda_spillover) =>
                      RatLt(weighted_knus[k][2], weighted_knus[j][2])

\* C13 (amended): of two records of a batch identical but for the spillover
\* of one, both get the same weight when lambda = 0, alpha = 1 or the total
\* effective impact of the batch is 0; otherwise the one with spillover gets
\* the strictly larger weight when its spillover has the sign of the total
\* effective impact (both positive, in the expected case), and the strictly
\* smaller weight when it has the opposite sign.
C13_SpilloverRaisesWeightBelowAlphaOne ==
    Called =>
        \A j, k \in 1..Len(knus) :
            Twins(j, k) =>
                IF \/ lambda_spillover = Zero
                   \/ alpha = One
                   \/ TotalImpact(knus) = Zero
                THEN weighted_knus[j][2] = weighted_knus[k][2]
                ELSE IF (knus[j].dR_adj_sum > 0) <=> RatLt(Zero, TotalImpact(knus))
                THEN RatLt(weighted_knus[k][2], weighted_knus[j][2])
                ELSE RatLt(weighted_knus[j][2], weighted_knus[k][2])

\* C13 witness: at lambda = 0.5 and alpha = 0.3, the first of two records
\* with positive impact has spillover and the larger weight.
C13_Witness ==
    /\ Called
    /\ Len(knus) = 2
    /\ Twins(1, 2)
    /\ knus[1].dR_primary > 0
    /\ lambda_spillover = Rat(1, 2)
    /\ alpha = Rat(3, 10)
    /\ RatLt(weighted_knus[2][2], weighted_knus[1][2])

\* C14 (as claimed): every weight returned by calculate_weights lies in
\* [0,1], for non-negative efforts, impacts of either sign, alpha in [0,1]
\* and lambda >= 0.
C14_WeightsInUnitInterval ==
    Called =>
        \A k \in 1..Len(weighted_knus) :
            /\ RatLe(Zero, weighted_knus[k][2])
            /\ RatLe(weighted_knus[k][2], One)

(***************************************************************************)
(* Properties of the ledger and of the reward calls (Spec).                *)
(***************************************************************************)
\* The run started from an absent or empty ledger: the row of the earlier
\* run, which no step removes (C4), is not there.
StartedEmpty == \A k \in 1..Len(ledger.rows) : ledger.rows[k] # OldRow

\* The ledger appends made so far by the call: one per returned Distribution
\* of a run that executes rewards.
Appends == IF dry_run THEN 0 ELSE Len(distributions)

C15_Inv ==
    StartedEmpty =>
        IF Appends = 0 THEN ledger.rows = <<>>
        ELSE /\ ledger.exists
             /\ Len(ledger.rows) = 1 + Appends
             /\ ledger.rows[1] = Header
             /\ \A k \in 2..Len(ledger.rows) : ledger.rows[k].kind = "data"

\* C15: from an absent or empty ledger, after n >= 1 appends the ledger is
\* one header row followed by n data rows; a step that writes the ledger
\* writes the header only when the ledger is absent or empty, and adds
\* exactly one data row, and nothing else, when it is not.
C15_HeaderThenRows ==
    /\ [](C15_Inv)
    /\ [][ledger' # ledger =>
            /\ ledger'.rows[Len(ledger'.rows)].kind = "data"
            /\ IF ~ledger.exists \/ ledger.rows = <<>>
               THEN /\ Len(ledger'.rows) = 2
                    /\ ledger'.rows[1] = Header
               ELSE /\ Len(ledger'.rows) = Len(ledger.rows) + 1
                    /\ SubSeq(ledger'.rows, 1, Len(ledger.rows)) = ledger.rows]_vars

\* C15 witness: two appends to a ledger that was absent or empty left the
\* header and two data rows.
C15_Witness ==
    /\ StartedEmpty
    /\ Appends = 2
    /\ Len(ledger.rows) = 3
    /\ ledger.rows[1] = Header
    /\ ledger.rows[3].kind = "data"

\* The records whose execution failed: distribute printed the failure.
FailedIds ==
    {stderr[k].knu_id : k \in {m \in 1..Len(stderr) :
                                stderr[m].msg \in {MsgRewardFailed, MsgUnparsed}}}

NoTx(ds) == [k \in 1..Len(ds) |-> [ds[k] EXCEPT !.tx_id = ""]]

\* The returned list is the allocations that did not fail, in allocation
\* order, each with a transaction id of the reward service.
ReturnsSuccesses ==
    /\ NoTx(distributions) =
          SelectSeq(allocs, LAMBDA d : d.knu_id \notin FailedIds)
    /\ \A k \in 1..Len(distributions) : distributions[k].tx_id \in TxIds

\* C16 (as claimed): a non-dry run that got to its allocations ends by
\* returning, whichever of them fail to execute, and returns exactly the
\* allocations that succeeded, in order, each with its transaction id.
C16_ReturnsExactlySuccesses ==
    (Ended /\ ~dry_run /\ allocs # <<>>) =>
        /\ outcome = "returned"
        /\ ReturnsSuccesses

RowIds == {ledger.rows[k].knu_id :
              k \in {m \in 1..Len(ledger.rows) : ledger.rows[m].kind = "data"}}
ReturnedIds == {distributions[k].knu_id : k \in 1..Len(distributions)}

\* A failed execution is never logged nor returned.
C17_Inv ==
    /\ FailedIds \cap RowIds = {}
    /\ FailedIds \cap ReturnedIds = {}

\* A step of execute_reward in which the reward call exits with a non-zero
\* status, or with an output that holds no transaction id.
RewardCallFails ==
    /\ pc = "exec"
    /\ \E m \in {MsgRewardFailed, MsgUnparsed} :
          stderr' = Append(stderr, [knu_id |-> dist.knu_id, msg |-> m])

\* C17: when the reward call exits with a non-zero status, or with status
\* zero and no TX-dddddd in its output, execute_reward raises a distribution
\* error, which distribute prints: no transaction id is returned and no
\* ledger row is appended, in that step or later; and execute_reward goes on
\* to the ledger only with a transaction id of the reward service.
C17_FailedRewardLeavesNoTrace ==
    /\ [](C17_Inv)
    /\ [][RewardCallFails =>
            /\ pc' \in {"alloc", "done"}
            /\ ledger' = ledger
            /\ tx' = tx
            /\ distributions' = distributions]_vars
    /\ [][(pc = "exec" /\ ~RewardCallFails) =>
            (pc' = "log" /\ tx' \in TxIds /\ stderr' = stderr)]_vars

\* C17 witness: of two allocations one failed by its exit status and the
\* other by its output; nothing is returned and the ledger of the earlier
\* run is as it was.
C17_Witness ==
    /\ Returned
    /\ ~dry_run
    /\ Len(calls) = 2
    /\ \E j, k \in 1..Len(stderr) :
          /\ stderr[j].msg = MsgRewardFailed
          /\ stderr[k].msg = MsgUnparsed
    /\ distributions = <<>>
    /\ ledger.rows = <<Header, OldRow>>

\* The number of data rows this run has appended.
RunRowCount ==
    IF ~StartedEmpty THEN Len(ledger.rows) - 2
    ELSE IF ledger.rows = <<>> THEN 0 ELSE Len(ledger.rows) - 1

\* The k-th row this run has appended.
RunRow(k) == ledger.rows[Len(ledger.rows) - RunRowCount + k]

\* Every transaction id returned to distribute is in one row of the run,
\* that of its allocation, and the run has no other row.
C18_Inv ==
    ~dry_run =>
        /\ RunRowCount = Len(distributions)
        /\ \A k \in 1..Len(distributions) :
              /\ distributions[k].tx_id \in TxIds
              /\ RunRow(k).kind = "data"
              /\ RunRow(k).tx_id = distributions[k].tx_id
              /\ RunRow(k).knu_id = distributions[k].knu_id
              /\ RunRow(k).owner = distributions[k].owner
              /\ RunRow(k).tokens_deg = distributions[k].tokens_deg

\* The step of execute_reward that follows a parsed transaction id appends
\* one data row with that id and returns the id.
AppendsRowAndReturns ==
    /\ Len(ledger'.rows) =
          Len(ledger.rows) + (IF ledger.rows = <<>> THEN 2 ELSE 1)
    /\ SubSeq(ledger'.rows, 1, Len(ledger.rows)) = ledger.rows
    /\ ledger'.rows[Len(ledger'.rows)].kind = "data"
    /\ ledger'.rows[Len(ledger'.rows)].tx_id = tx
    /\ ledger'.rows[Len(ledger'.rows)].knu_id = dist.knu_id
    /\ ledger.rows = <<>> => ledger'.rows[1] = Header
    /\ distributions' = Append(distributions, [dist EXCEPT !.tx_id = tx])

\* C18: after a successful, parsed reward call, execute_reward appends
\* exactly one ledger row, with the transaction id it then returns; the id
\* reaches distribute only in the step that has written the row, and when
\* the write raises instead, no row is written and no id is returned.
C18_RowBeforeReturn ==
    /\ [](C18_Inv)
    /\ [][pc = "log" =>
            \/ AppendsRowAndReturns
            \/ /\ ledger' = ledger
               /\ distributions' = distributions
               /\ outcome' = "OSError"]_vars
    /\ [][(~dry_run /\ distributions' # distributions) =>
            (pc = "log" /\ ledger' # ledger)]_vars

\* C18 witness: two rewards executed with different transaction ids behind
\* the rows of an earlier run: each id is in the row of its allocation.
C18_Witness ==
    /\ Returned
    /\ ~dry_run
    /\ ~StartedEmpty
    /\ Len(distributions) = 2
    /\ distributions[1].tx_id # distributions[2].tx_id
    /\ RunRow(1).tx_id = distributions[1].tx_id
    /\ RunRow(2).tx_id = distributions[2].tx_id

\* The surviving records, in input order.
SurvivorSeq == SelectSeq(knus, IsSurvivor)

\* The allocation of the k-th of the surviving records sv, from the inputs.
ExpectedAlloc(sv, ws, pd, k) ==
    [knu_id |-> sv[k].knu_id, owner |-> sv[k].owner, weight |-> ws[k],
     tokens_tt |-> Rat(AmountFor(ws, pd, k), 360),
     tokens_deg |-> AmountFor(ws, pd, k), tx_id |-> ""]

\* The rows a run must have appended, from its inputs and from the outcomes
\* of its reward calls (which failed, which transaction ids were returned).
ExpectedRows(sv, ws, pd) ==
    LET ok == SelectSeq([k \in 1..Len(sv) |-> k],
                        LAMBDA k : sv[k].knu_id \notin FailedIds)
    IN  [m \in 1..Len(ok) |->
            LedgerRow(knot_id, sv[ok[m]], ExpectedAlloc(sv, ws, pd, ok[m]),
                      distributions[m].tx_id)]

RunRows == [k \in 1..RunRowCount |-> RunRow(k)]

\* The rows of the run are those expected of its inputs and outcomes.
RowsAsExpected ==
    \A sv \in {SurvivorSeq} :
       \A ws \in {WeightsOf(calculate_weights(sv, alpha, lambda_spillover))},
          pd \in {PoolDeg(pools[knot_id])} :
          RunRows = ExpectedRows(sv, ws, pd)

C19_Inv ==
    ~dry_run =>
        /\ \A sv \in {SurvivorSeq} :
              /\ Len(calls) <= Len(sv)
              /\ \A k \in 1..Len(calls) :
                    /\ calls[k].owner = sv[k].owner
                    /\ calls[k].tt_amount = allocs[k].tokens_tt
                    /\ allocs[k].knu_id = sv[k].knu_id
              /\ \A k \in 1..RunRowCount :
                    \E j \in 1..Len(calls) :
                       /\ RunRow(k).knu_id = sv[j].knu_id
                       /\ k < RunRowCount =>
                             \E j2 \in (j + 1)..Len(calls) :
                                RunRow(k + 1).knu_id = sv[j2].knu_id
        /\ Len(allocs) - Len(calls) \in {0, 1}
        /\ Returned => RowsAsExpected

\* C19: in a non-dry run the reward calls are issued in the input order of
\* the surviving records, each only when the one before it has failed or
\* has been logged and returned; the rows the run appends are in that same
\* order, and they are a function of the input and of the outcomes of the
\* calls (timestamps aside).
C19_SequentialInOrder ==
    /\ [](C19_Inv)
    /\ [][Len(calls') # Len(calls) =>
            /\ calls' = Append(calls, [owner |-> SurvivorSeq[Len(calls) + 1].owner,
                                       tt_amount |-> allocs[Len(calls) + 1].tokens_tt])
            /\ Len(calls) = Cardinality(FailedIds) + Len(distributions)
            /\ RunRowCount = Len(distributions)]_vars

\* C19 witness: both records of a batch were paid, the first before the
\* second, and their rows are in that order behind those of an earlier run.
C19_Witness ==
    /\ Returned
    /\ ~dry_run
    /\ ~StartedEmpty
    /\ Len(calls) = 2
    /\ calls[1].owner = knus[1].owner
    /\ calls[2].owner = knus[2].owner
    /\ RunRowCount = 2
    /\ RunRow(1).knu_id = knus[1].knu_id
    /\ RunRow(2).knu_id = knus[2].knu_id
    /\ RowsAsExpected

\* The reward call made for an allocation: its owner and tokens_deg / 360.
CallFor(d) == [owner |-> d.owner, tt_amount |-> Rat(d.tokens_deg, 360)]

C20_Inv ==
    ~dry_run =>
        /\ Len(allocs) <= Len(SurvivorSeq)
        /\ Len(allocs) - Len(calls) \in {0, 1}
        /\ Len(allocs) = Len(calls) + 1 <=> pc = "exec"
        /\ \A k \in 1..Len(calls) : calls[k] = CallFor(allocs[k])
        /\ \A j, k \in 1..Len(allocs) :
              allocs[j].knu_id = allocs[k].knu_id => j = k
        /\ Returned => Len(calls) = Len(SurvivorSeq)

\* C20: in a non-dry run the reward service is called once for each
\* allocation computed, with its owner and tokens_deg / 360: every call is
\* for the allocation just computed, which has had no call, and a failed
\* call is followed by the next allocation or the end of the run, never by
\* a second call; the run ends, and when it returns every surviving record
\* has had its one call.
C20_OneCallPerAllocation ==
    /\ [](C20_Inv)
    /\ [][calls' # calls =>
            /\ Len(allocs) = Len(calls) + 1
            /\ calls' = Append(calls, CallFor(allocs[Len(allocs)]))
            /\ allocs' = allocs]_vars
    /\ [][RewardCallFails =>
            (i' = i + 1 /\ pc' \in {"alloc", "done"} /\ Len(calls') = Len(allocs))]_vars
    /\ <>Ended

\* C20 witness: both calls of a batch of two failed, each was made once,
\* and distribute returned an empty list.
C20_Witness ==
    /\ Returned
    /\ ~dry_run
    /\ Len(allocs) = 2
    /\ calls = <<CallFor(allocs[1]), CallFor(allocs[2])>>
    /\ Cardinality(FailedIds) = 2
    /\ distributions = <<>>

(***************************************************************************)
(* The zero sum of the blend (SpecWeights).                                *)
(***************************************************************************)
\* The sum of the blended weights of the batch, before renormalization.
RawSum == RatSum(RawWeights(knus, alpha, lambda_spillover))

\* C21 (as claimed): for a non-empty batch the sum of the blended weights
\* alpha * effort_norm + (1 - alpha) * impact_norm is zero only when the
\* total effort and the total effective impact are both zero, and in every
\* other case the weights returned sum to 1.
C21_ZeroSumOnlyWithoutSignal ==
    (Called /\ knus # <<>>) =>
        /\ RawSum = Zero => (TotalEffort(knus) = 0 /\ TotalImpact(knus) = Zero)
        /\ ~(TotalEffort(knus) = 0 /\ TotalImpact(knus) = Zero) =>
              RatSum(WeightsOf(weighted_knus)) = One

(***************************************************************************)
(* Rounding and the batch without signal (Spec).                           *)
(***************************************************************************)
\* The sum of the amounts of the allocations before the k-th.
EarlierDeg(k) == IntSum([j \in 1..(k - 1) |-> allocs[j].tokens_deg])

\* C22 (as claimed): with pool_deg = floor(pool_tt * 360), every allocation
\* but that of the last surviving record is floor(pool_deg * weight), and
\* that of the last surviving record is pool_deg minus the sum of the
\* earlier allocations.
C22_FloorThenRemainder ==
    allocs # <<>> =>
        /\ pool_deg = Floor(RatMul(pools[knot_id], FromInt(360)))
        /\ \A k \in 1..Len(allocs) :
              /\ allocs[k].weight = weighted_knus[k][2]
              /\ IF k < Len(SurvivorSeq)
                 THEN allocs[k].tokens_deg =
                          Floor(RatMul(FromInt(pool_deg), allocs[k].weight))
                 ELSE allocs[k].tokens_deg = pool_deg - EarlierDeg(k)

\* The reward calls that have completed with a parsed transaction id: the
\* payouts executed by the reward service.
ExecutedPayouts == Len(calls) - Cardinality(FailedIds)

C23_Inv ==
    ~dry_run =>
        /\ ExecutedPayouts - RunRowCount \in {0, 1}
        /\ ExecutedPayouts = RunRowCount + 1 <=>
              (pc = "log" \/ outcome = "OSError")
        /\ \A k \in 1..RunRowCount :
              /\ RunRow(k).kind = "data"
              /\ RunRow(k).tx_id \in TxIds
              /\ RunRow(k).knu_id \notin FailedIds
              /\ \E j \in 1..Len(calls) :
                    /\ allocs[j].knu_id = RunRow(k).knu_id
                    /\ allocs[j].tokens_deg = RunRow(k).tokens_deg
                    /\ calls[j].owner = RunRow(k).owner
        /\ (pc = "log" \/ outcome = "OSError") =>
              /\ tx \in TxIds
              /\ dist.knu_id \notin RowIds
              /\ dist.knu_id \notin FailedIds

\* C23: at every point of a non-dry run, each row the run has appended is
\* that of an allocation whose reward call has completed with a parsed
\* transaction id, and the payouts executed are the rows appended or one
\* more: the one more is the payout between its call and its append, and
\* stays without a row when the append raises; a row is written only by
\* the step that follows a parsed reward call, with its transaction id.
C23_NoRowWithoutPayout ==
    /\ [](C23_Inv)
    /\ [][ledger' # ledger =>
            /\ pc = "log"
            /\ tx \in TxIds
            /\ ledger'.rows[Len(ledger'.rows)].tx_id = tx
            /\ ledger'.rows[Len(ledger'.rows)].knu_id = dist.knu_id
            /\ calls[Len(calls)] = CallFor(dist)]_vars

\* C23 witness: the first payout of a batch was executed and logged, the
\* second was executed and the append of its row raised: two payouts, one
\* row of the run.
C23_Witness ==
    /\ outcome = "OSError"
    /\ ~dry_run
    /\ Len(calls) = 2
    /\ ExecutedPayouts = 2
    /\ RunRowCount = 1
    /\ RunRow(1).knu_id = allocs[1].knu_id
    /\ dist = allocs[2]

\* The batch without signal: some record survives, and every surviving
\* record has zero effort and zero effective impact.
NoSignal ==
    /\ SurvivorSeq # <<>>
    /\ \A k \in 1..Len(SurvivorSeq) :
          /\ SurvivorSeq[k].E_pred = 0
          /\ EffectiveImpact(SurvivorSeq[k]) = Zero

\* The weights returned for a batch without signal are all zero.
NoSignalWeightsZero ==
    NoSignal => \A k \in 1..Len(weighted_knus) : weighted_knus[k][2] = Zero

\* C24 (as claimed): when every surviving record has zero effort and zero
\* effective impact, calculate_weights returns all-zero weights and
\* distribute pays no record a positive amount: no allocation it computes
\* or returns is positive, and no reward call carries a positive amount.
C24_NoSignalPaysNothing ==
    NoSignal =>
        /\ \A k \in 1..Len(weighted_knus) : weighted_knus[k][2] = Zero
        /\ \A k \in 1..Len(allocs) : allocs[k].tokens_deg <= 0
        /\ \A k \in 1..Len(distributions) : distributions[k].tokens_deg <= 0
        /\ \A k \in 1..Len(calls) : ~RatLt(Zero, calls[k].tt_amount)

====
